---- MODULE Spec2Model ----
(***************************************************************************)
(* A model of server.js: the Express application of AI-Stream-Generator.   *)
(*                                                                         *)
(* One request is followed from its arrival through the middleware chain   *)
(* (express.json, cors, the x-api-key check) to its route handler and, for *)
(* the three generation routes, across the await of the upstream fetch.    *)
(* The handlers share no mutable state (server.js keeps none), so the      *)
(* handling of one request is independent of every other.                  *)
(*                                                                         *)
(* JavaScript strings are sequences of one-character strings.  A value     *)
(* that may be undefined (a header, an environment variable) is a record   *)
(* [def, s].  Every request carries a JSON content type, so express.json   *)
(* either hands an object to the chain or fails the request.               *)
(***************************************************************************)
EXTENDS Integers, Sequences, FiniteSets

VARIABLES
  env,        \* process.env: ALLOWED_ORIGINS, CLIENT_API_KEY, OPENAI_API_KEY
  req,        \* the request being handled
  pc,         \* "idle" | "awaiting" (handler suspended at await fetch) | "responded"
  res,        \* the response sent for req (NoRes while none is sent)
  log,        \* what ran for req: the checks, the handler, the fetches and their outcome
  crashed,    \* the process died of an unhandled promise rejection
  after500    \* an earlier request was answered by a handler's catch block

vars == <<env, req, pc, res, log, crashed, after500>>

----------------------------------------------------------------------------
(* Characters and strings *)

SP == " "
LF == "\n"
CR == "\r"
COMMA == ","

\* the characters String.prototype.trim removes, among those the model uses
White == {SP, LF, CR}

Undefined == [def |-> FALSE, s |-> <<>>]
Str(s) == [def |-> TRUE, s |-> s]

\* JavaScript's !v is FALSE for a non-empty string only
Truthy(v) == v.def /\ v.s # <<>>

RECURSIVE TrimStart(_)
TrimStart(s) ==
  IF s # <<>> /\ Head(s) \in White THEN TrimStart(Tail(s)) ELSE s

RECURSIVE TrimEnd(_)
TrimEnd(s) ==
  IF s # <<>> /\ s[Len(s)] \in White THEN TrimEnd(SubSeq(s, 1, Len(s) - 1)) ELSE s

\* l.trim() / s.trim()
Trim(s) == TrimEnd(TrimStart(s))

\* s.split(",") : the pieces between the commas, acc being the piece in progress
RECURSIVE SplitComma(_, _)
SplitComma(s, acc) ==
  IF s = <<>> THEN <<acc>>
  ELSE IF Head(s) = COMMA THEN <<acc>> \o SplitComma(Tail(s), <<>>)
  ELSE SplitComma(Tail(s), Append(acc, Head(s)))

\* out.split(/\r?\n/) : a separator is a line feed with the carriage return
\* before it, if there is one
RECURSIVE SplitLines(_, _)
SplitLines(s, acc) ==
  IF s = <<>> THEN <<acc>>
  ELSE IF Head(s) = CR /\ Len(s) >= 2 /\ s[2] = LF
    THEN <<acc>> \o SplitLines(Tail(Tail(s)), <<>>)
  ELSE IF Head(s) = LF THEN <<acc>> \o SplitLines(Tail(s), <<>>)
  ELSE SplitLines(Tail(s), Append(acc, Head(s)))

\* .map(l => l.trim())
MapTrim(ls) == [i \in 1..Len(ls) |-> Trim(ls[i])]

\* .filter(Boolean) : the empty string is the only falsy string
RECURSIVE FilterBoolean(_)
FilterBoolean(ls) ==
  IF ls = <<>> THEN <<>>
  ELSE IF Head(ls) # <<>> THEN <<Head(ls)>> \o FilterBoolean(Tail(ls))
  ELSE FilterBoolean(Tail(ls))

\* the slice taking one element too many
Slice0_Inclusive(ls, n) == SubSeq(ls, 1, IF Len(ls) < n + 1 THEN Len(ls) ELSE n + 1)

\* lines.slice(0, n)
Slice0(ls, n) == SubSeq(ls, 1, IF Len(ls) < n THEN Len(ls) ELSE n)

TitleLimit == 10
NameLimit == 15
BioLimit == 5

\* out.split(/\r?\n/).map(l => l.trim()).filter(Boolean)
ParseLines(out) == FilterBoolean(MapTrim(SplitLines(out, <<>>)))

----------------------------------------------------------------------------
(* JSON values of a request body, and JavaScript numbers *)

\* a JSON value: t is its type, n its number (0 or 1 for a boolean), s its
\* string; "undefined" is a field the body does not hold
JUndefined == [t |-> "undefined", n |-> 0, s |-> ""]
JNull == [t |-> "null", n |-> 0, s |-> ""]
JBool(b) == [t |-> "boolean", n |-> IF b THEN 1 ELSE 0, s |-> ""]
JNum(n) == [t |-> "number", n |-> n, s |-> ""]
JStr(s) == [t |-> "string", n |-> 0, s |-> s]
JObject == [t |-> "object", n |-> 0, s |-> ""]

\* a JavaScript number: NaN, or the value v
NaN == [nan |-> TRUE, v |-> 0]
Num(v) == [nan |-> FALSE, v |-> v]

\* the strings of the model that StringToNumber reads as a number
NumericStrings == {"", "1", "2", "3", " 4 "}

StringToNumber(s) ==
  CASE s = "" -> Num(0)
    [] s = "1" -> Num(1)
    [] s = "2" -> Num(2)
    [] s = "3" -> Num(3)
    [] s = " 4 " -> Num(4)
    [] OTHER -> NaN

\* Number(x) || 0 : NaN replaced by 0
Number_OrZero(x) ==
  CASE x.t = "null" -> Num(0)
    [] x.t = "boolean" -> Num(x.n)
    [] x.t = "number" -> Num(x.n)
    [] x.t = "string" -> IF StringToNumber(x.s).nan THEN Num(0) ELSE StringToNumber(x.s)
    [] OTHER -> Num(0)

\* Number(x)
Number(x) ==
  CASE x.t = "undefined" -> NaN
    [] x.t = "null" -> Num(0)
    [] x.t = "boolean" -> Num(x.n)
    [] x.t = "number" -> Num(x.n)
    [] x.t = "string" -> StringToNumber(x.s)
    [] OTHER -> NaN

\* a * b
Mul(a, b) == IF a.nan \/ b.nan THEN NaN ELSE Num(a.v * b.v)

\* JSON.stringify of a number: NaN is written null
JsonNumber(x) == IF x.nan THEN JNull ELSE JNum(x.v)

\* const { f = d } = req.body : the default replaces undefined only
Default(x, d) == IF x.t = "undefined" THEN d ELSE x

----------------------------------------------------------------------------
(* Calculators *)

\* the rates of tierRates, in tenths: 2.5, 5 and 12.5
RateTier1 == 25
RateTier2 == 50
RateTier3 == 125

\* property names every object inherits from Object.prototype
ObjectPrototypeKeys ==
  {"constructor", "toString", "valueOf", "hasOwnProperty", "__proto__"}

\* tierRates[tier] : the key is the tier as a string; the result is a rate,
\* "undefined" for a name tierRates does not have, or the inherited member
\* of Object.prototype (a function or an object)
TierLookup(tier) ==
  CASE (tier.t = "number" /\ tier.n = 1) \/ (tier.t = "string" /\ tier.s = "1")
         -> [kind |-> "rate", rate |-> RateTier1]
    [] (tier.t = "number" /\ tier.n = 2) \/ (tier.t = "string" /\ tier.s = "2")
         -> [kind |-> "rate", rate |-> RateTier2]
    [] (tier.t = "number" /\ tier.n = 3) \/ (tier.t = "string" /\ tier.s = "3")
         -> [kind |-> "rate", rate |-> RateTier3]
    [] tier.t = "string" /\ tier.s \in ObjectPrototypeKeys
         -> [kind |-> "inherited", rate |-> 0]
    [] OTHER -> [kind |-> "undefined", rate |-> 0]

\* tierRates[tier] ?? tierRates[1], as the number the product reads: ?? falls
\* back for undefined only, and a function or object multiplies as NaN
TierRate(tier) ==
  LET l == TierLookup(tier) IN
    CASE l.kind = "rate" -> Num(l.rate)
      [] l.kind = "undefined" -> Num(RateTier1)
      [] OTHER -> NaN

\* the object /calc-subs answers with; earnings is in tenths
CalcSubs(body) ==
  LET subs == Default(body.subs, JNum(0))
      tier == Default(body.tier, JNum(1))
      earnings == Mul(Number(subs), TierRate(tier))
  IN [subs |-> JsonNumber(Number(subs)), tier |-> tier,
      adMinutes |-> JUndefined, viewers |-> JUndefined, cpm |-> JUndefined,
      earnings |-> JsonNumber(earnings)]

\* the object /calc-ads answers with; earnings is in thousandths, the
\* division by 1000 being left to the unit (exact, where the code rounds)
CalcAds(body) ==
  LET adMinutes == Default(body.adMinutes, JNum(0))
      viewers == Default(body.viewers, JNum(0))
      cpm == Default(body.cpm, JNum(3))
      earnings == Mul(Mul(Number(viewers), Number(cpm)), Number(adMinutes))
  IN [subs |-> JUndefined, tier |-> JUndefined,
      adMinutes |-> JsonNumber(Number(adMinutes)),
      viewers |-> JsonNumber(Number(viewers)), cpm |-> JsonNumber(Number(cpm)),
      earnings |-> JsonNumber(earnings)]

----------------------------------------------------------------------------
(* Responses *)

NoFields ==
  [subs |-> JUndefined, tier |-> JUndefined, adMinutes |-> JUndefined,
   viewers |-> JUndefined, cpm |-> JUndefined, earnings |-> JUndefined]

\* a response: its status, the type of its body ("json", "text", "html",
\* "empty"), and the body: an error message, a text, the list of a
\* generation route under its key with the raw text, or a calculator's fields
NoRes ==
  [status |-> 0, type |-> "none", error |-> "", upstreamStatus |-> 0,
   text |-> "", key |-> "", list |-> <<>>, raw |-> <<>>, fields |-> NoFields]

\* res.status(st).json({ error: msg })
JsonError(st, msg, ust) ==
  [NoRes EXCEPT !.status = st, !.type = "json", !.error = msg,
                !.upstreamStatus = ust]

\* res.json({ <key>: list, raw: out })
JsonList(k, list, out) ==
  [NoRes EXCEPT !.status = 200, !.type = "json", !.key = k, !.list = list,
                !.raw = out]

\* res.json(fields)
JsonFields(f) == [NoRes EXCEPT !.status = 200, !.type = "json", !.fields = f]

\* res.send("OK")
SendText(t) == [NoRes EXCEPT !.status = 200, !.type = "text", !.text = t]

\* Express's final handler, reached by next(err) or by no route matching:
\* the status of the error (500 when it has none) and an HTML page
FinalHandler(st, msg) ==
  [NoRes EXCEPT !.status = st, !.type = "html", !.text = msg]

\* the cors package's answer to an OPTIONS request: 204 and no body
Preflight == [NoRes EXCEPT !.status = 204, !.type = "empty"]

----------------------------------------------------------------------------
(* The middleware chain *)

NoLog ==
  [parsed |-> FALSE, originChecked |-> FALSE, keyChecked |-> FALSE,
   handler |-> "none", fetches |-> 0, upstream |-> "none", maxTokens |-> 0,
   outcome |-> "none", outcomeStatus |-> 0]

GenerationRoutes == {"/generate-title", "/generate-name", "/generate-bio"}
CalculatorRoutes == {"/calc-subs", "/calc-ads"}

\* the allow-list without the trim of its entries
Allowed_NoTrim(e) ==
  IF Truthy(e.ALLOWED_ORIGINS)
    THEN [null |-> FALSE, list |-> SplitComma(e.ALLOWED_ORIGINS.s, <<>>)]
    ELSE [null |-> TRUE, list |-> <<>>]

\* const allowed = ALLOWED_ORIGINS ? ALLOWED_ORIGINS.split(",").map(trim) : null
Allowed(e) ==
  IF Truthy(e.ALLOWED_ORIGINS)
    THEN [null |-> FALSE, list |-> MapTrim(SplitComma(e.ALLOWED_ORIGINS.s, <<>>))]
    ELSE [null |-> TRUE, list |-> <<>>]

\* allowed.includes(origin)
Includes(list, x) == \E i \in 1..Len(list) : list[i] = x

\* the origin callback given to cors: TRUE for callback(null, true), FALSE
\* for callback(new Error("CORS not allowed"), false)
OriginAllowed(e, origin) ==
  IF Allowed(e).null \/ ~Truthy(origin) THEN TRUE
  ELSE IF Includes(Allowed(e).list, origin.s) THEN TRUE
  ELSE FALSE

\* the key check letting a request without the header through
KeyAccepted_MissingPasses(e, incoming) ==
  IF ~Truthy(e.CLIENT_API_KEY) THEN TRUE
  ELSE IF Truthy(incoming) /\ incoming # e.CLIENT_API_KEY THEN FALSE
  ELSE TRUE

\* the key check without its open mode
KeyAccepted_AlwaysRequired(e, incoming) ==
  IF ~Truthy(incoming) \/ incoming # e.CLIENT_API_KEY THEN FALSE ELSE TRUE

\* the x-api-key middleware: TRUE for next(), FALSE for the 401
KeyAccepted(e, incoming) ==
  IF ~Truthy(e.CLIENT_API_KEY) THEN TRUE
  ELSE IF ~Truthy(incoming) \/ incoming # e.CLIENT_API_KEY THEN FALSE
  ELSE TRUE

\* the router with /health registered under POST
Route_HealthPost(method, path) ==
  CASE method = "POST" /\ path \in GenerationRoutes \cup CalculatorRoutes -> path
    [] method = "POST" /\ path = "/health" -> path
    [] OTHER -> "none"

\* the route a method and a path select ("none": no route matches)
Route(method, path) ==
  CASE method = "POST" /\ path \in GenerationRoutes \cup CalculatorRoutes -> path
    [] method = "GET" /\ path = "/health" -> path
    [] OTHER -> "none"

\* callOpenAI(prompt, maxTokens) as each generation route calls it
MaxTokens(route) ==
  CASE route = "/generate-title" -> 160
    [] route = "/generate-name" -> 200
    [] OTHER -> 160

\* the key of the list in a generation route's answer, and its length cap
ListKey(route) ==
  CASE route = "/generate-title" -> "titles"
    [] route = "/generate-name" -> "names"
    [] OTHER -> "bios"

ListLimit(route) ==
  CASE route = "/generate-title" -> TitleLimit
    [] route = "/generate-name" -> NameLimit
    [] OTHER -> BioLimit

\* what a handler's try block came to: a response, or an exception thrown
Returned(r) == [threw |-> FALSE, res |-> r, error |-> "", upstreamStatus |-> 0]
Threw(msg, ust) == [threw |-> TRUE, res |-> NoRes, error |-> msg, upstreamStatus |-> ust]

\* a handler without its try and catch: the exception leaves the handler
TryCatch_Rethrow(t) ==
  IF t.threw
    THEN [escaped |-> TRUE, res |-> NoRes]
    ELSE [escaped |-> FALSE, res |-> t.res]

\* try { ... } catch (e) { res.status(500).json({ error: e.message }) } :
\* what the handler sends, and whether the exception left the handler
TryCatch(t) ==
  IF t.threw
    THEN [escaped |-> FALSE, res |-> JsonError(500, t.error, t.upstreamStatus)]
    ELSE [escaped |-> FALSE, res |-> t.res]

\* callOpenAI up to its fetch: TRUE when it throws for the missing key
CredentialMissing(e) == ~Truthy(e.OPENAI_API_KEY)

\* a generation handler from the settled fetch on: the rest of callOpenAI,
\* the split into lines and the answer. o is what the provider did.
AfterFetch(route, o) ==
  CASE o.kind = "reject" -> Threw("fetch failed", 0)
    [] o.kind = "status" -> Threw("OpenAI error", o.status)
    [] o.kind = "badjson" -> Threw("Unexpected token", 0)
    [] o.kind = "nonstring" -> Threw("out.split is not a function", 0)
    [] OTHER ->
         LET out == IF o.kind = "nocontent" THEN <<>> ELSE o.text
             lines == ParseLines(out)
         IN Returned(JsonList(ListKey(route), Slice0(lines, ListLimit(route)), out))

\* the chain with the x-api-key check registered before cors
Middleware_KeyFirst(e, r) ==
  IF ~r.body.ok
    THEN [passed |-> FALSE, res |-> FinalHandler(400, "Unexpected token"),
          log |-> NoLog]
  ELSE IF ~KeyAccepted(e, r.key)
    THEN [passed |-> FALSE,
          res |-> JsonError(401, "Missing or invalid x-api-key header", 0),
          log |-> [NoLog EXCEPT !.parsed = TRUE, !.keyChecked = TRUE]]
  ELSE IF ~OriginAllowed(e, r.origin)
    THEN [passed |-> FALSE, res |-> FinalHandler(500, "CORS not allowed"),
          log |-> [NoLog EXCEPT !.parsed = TRUE, !.originChecked = TRUE,
                                !.keyChecked = TRUE]]
  ELSE IF r.method = "OPTIONS"
    THEN [passed |-> FALSE, res |-> Preflight,
          log |-> [NoLog EXCEPT !.parsed = TRUE, !.originChecked = TRUE,
                                !.keyChecked = TRUE]]
  ELSE [passed |-> TRUE, res |-> NoRes,
        log |-> [NoLog EXCEPT !.parsed = TRUE, !.originChecked = TRUE,
                              !.keyChecked = TRUE]]

\* app.use(express.json()), app.use(cors(...)), app.use(<x-api-key check>),
\* in the order of registration: what is sent when one of them ends the
\* request, or passed = TRUE when the request reaches the router
Middleware(e, r) ==
  IF ~r.body.ok
    THEN [passed |-> FALSE, res |-> FinalHandler(400, "Unexpected token"),
          log |-> NoLog]
  ELSE IF ~OriginAllowed(e, r.origin)
    THEN [passed |-> FALSE, res |-> FinalHandler(500, "CORS not allowed"),
          log |-> [NoLog EXCEPT !.parsed = TRUE, !.originChecked = TRUE]]
  ELSE IF r.method = "OPTIONS"
    THEN [passed |-> FALSE, res |-> Preflight,
          log |-> [NoLog EXCEPT !.parsed = TRUE, !.originChecked = TRUE]]
  ELSE IF ~KeyAccepted(e, r.key)
    THEN [passed |-> FALSE,
          res |-> JsonError(401, "Missing or invalid x-api-key header", 0),
          log |-> [NoLog EXCEPT !.parsed = TRUE, !.originChecked = TRUE,
                                !.keyChecked = TRUE]]
  ELSE [passed |-> TRUE, res |-> NoRes,
        log |-> [NoLog EXCEPT !.parsed = TRUE, !.originChecked = TRUE,
                              !.keyChecked = TRUE]]

\* a generation handler that does not await callOpenAI: the fetch is sent,
\* out is a promise, out.split throws and the catch answers at once
GenerationStart_NoAwait(e, route, l) ==
  IF CredentialMissing(e)
    THEN LET c == TryCatch(Threw("OPENAI_API_KEY missing in env", 0))
         IN [pc |-> "responded", res |-> c.res, log |-> l, escaped |-> c.escaped]
    ELSE [pc |-> "responded",
          res |-> JsonError(500, "out.split is not a function", 0),
          log |-> [l EXCEPT !.fetches = @ + 1, !.upstream = "pending",
                            !.maxTokens = MaxTokens(route)],
          escaped |-> FALSE]

\* a generation handler up to its first await: the catch answers when
\* callOpenAI throws for the missing key, else the fetch is sent and the
\* handler suspends
GenerationStart(e, route, l) ==
  IF CredentialMissing(e)
    THEN LET c == TryCatch(Threw("OPENAI_API_KEY missing in env", 0))
         IN [pc |-> "responded", res |-> c.res, log |-> l, escaped |-> c.escaped]
    ELSE [pc |-> "awaiting", res |-> NoRes,
          log |-> [l EXCEPT !.fetches = @ + 1, !.upstream = "pending",
                            !.maxTokens = MaxTokens(route)],
          escaped |-> FALSE]

\* a generation handler resumed by the settled fetch
GenerationResume(route, o, l) ==
  LET c == TryCatch(AfterFetch(route, o))
  IN [pc |-> "responded", res |-> c.res,
      log |-> [l EXCEPT !.upstream = "settled", !.outcome = o.kind,
                        !.outcomeStatus = o.status],
      escaped |-> c.escaped]

\* the router and the route handlers
Handle(e, r, l0) ==
  LET route == Route(r.method, r.path)
      l == [l0 EXCEPT !.handler = route]
  IN CASE route = "none" ->
            [pc |-> "responded", res |-> FinalHandler(404, "Not Found"),
             log |-> l, escaped |-> FALSE]
       [] route = "/health" ->
            [pc |-> "responded", res |-> SendText("OK"), log |-> l,
             escaped |-> FALSE]
       [] route = "/calc-subs" ->
            [pc |-> "responded", res |-> JsonFields(CalcSubs(r.body.f)),
             log |-> l, escaped |-> FALSE]
       [] route = "/calc-ads" ->
            [pc |-> "responded", res |-> JsonFields(CalcAds(r.body.f)),
             log |-> l, escaped |-> FALSE]
       [] OTHER -> GenerationStart(e, route, l)

\* a request from its arrival until a response is sent or its handler
\* suspends
Chain(e, r) ==
  LET m == Middleware(e, r)
  IN IF m.passed THEN Handle(e, r, m.log)
     ELSE [pc |-> "responded", res |-> m.res, log |-> m.log, escaped |-> FALSE]

----------------------------------------------------------------------------
(* Inputs *)

A == <<"a">>
B == <<"b">>
C == <<"c">>
K == <<"k">>
X == <<"x">>

\* ALLOWED_ORIGINS: unset, empty, or "a, b"
AllowedOriginsValues == {Undefined, Str(<<>>), Str(<<"a", COMMA, SP, "b">>)}
\* CLIENT_API_KEY and OPENAI_API_KEY: unset, empty, or a key
ClientKeyValues == {Undefined, Str(<<>>), Str(K)}
OpenAIKeyValues == {Undefined, Str(<<>>), Str(<<"s">>)}

Envs ==
  [ALLOWED_ORIGINS : AllowedOriginsValues, CLIENT_API_KEY : ClientKeyValues,
   OPENAI_API_KEY : OpenAIKeyValues]

Methods == {"GET", "POST", "OPTIONS"}
Paths == GenerationRoutes \cup CalculatorRoutes \cup {"/health", "/other"}
\* the origin header: none, empty, listed ("b"), not listed ("c")
Origins == {Undefined, Str(<<>>), Str(B), Str(C)}
\* the x-api-key header: none, the key, another key
Keys == {Undefined, Str(K), Str(X)}

EmptyBody == [ok |-> TRUE, f |-> NoFields]
MalformedBody == [ok |-> FALSE, f |-> NoFields]
SampleBody ==
  [ok |-> TRUE,
   f |-> [NoFields EXCEPT !.subs = JNum(100), !.tier = JNum(2),
                          !.adMinutes = JNum(10), !.viewers = JNum(5000)]]

Requests ==
  [method : Methods, path : Paths, origin : Origins, key : Keys,
   body : {EmptyBody, MalformedBody, SampleBody}]

\* "a\n\nb\r\nc", and seven lines of which six are not empty
SampleTexts ==
  {<<"a", LF, LF, "b", CR, LF, "c">>,
   <<"a", LF, SP, "b", LF, LF, "c", LF, "d", SP, LF, "e", LF, "f">>}

\* what the provider does with the one request it is sent
Outcome(kind, status, text) == [kind |-> kind, status |-> status, text |-> text]

Outcomes ==
  {Outcome("reject", 0, <<>>), Outcome("status", 429, <<>>),
   Outcome("status", 500, <<>>), Outcome("badjson", 200, <<>>),
   Outcome("nonstring", 200, <<>>), Outcome("nocontent", 200, <<>>)}
  \cup {Outcome("text", 200, t) : t \in SampleTexts}

----------------------------------------------------------------------------
(* The state machine *)

Init(E) ==
  /\ env \in E
  /\ req = [method |-> "GET", path |-> "/health", origin |-> Undefined,
            key |-> Undefined, body |-> EmptyBody]
  /\ pc = "idle"
  /\ res = NoRes
  /\ log = NoLog
  /\ crashed = FALSE
  /\ after500 = FALSE

\* a request arrives and runs until its response or its handler's await
Receive(R) ==
  /\ pc = "idle"
  /\ ~crashed
  /\ \E r \in R :
       LET c == Chain(env, r) IN
         /\ req' = r
         /\ pc' = c.pc
         /\ res' = c.res
         /\ log' = c.log
         /\ crashed' = c.escaped
  /\ UNCHANGED <<env, after500>>

\* the fetch settles and the suspended handler runs to its end
Settle(O) ==
  /\ pc = "awaiting"
  /\ ~crashed
  /\ \E o \in O :
       LET c == GenerationResume(log.handler, o, log) IN
         /\ pc' = c.pc
         /\ res' = c.res
         /\ log' = c.log
         /\ crashed' = c.escaped
  /\ UNCHANGED <<env, req, after500>>

\* the response is out: the values of the request are dropped
Finish ==
  /\ pc = "responded"
  /\ ~crashed
  /\ pc' = "idle"
  /\ res' = NoRes
  /\ log' = NoLog
  /\ req' = [method |-> "GET", path |-> "/health", origin |-> Undefined,
             key |-> Undefined, body |-> EmptyBody]
  /\ after500' = (after500 \/ (res.status = 500 /\ res.type = "json"))
  /\ UNCHANGED <<env, crashed>>

Next == Receive(Requests) \/ Settle(Outcomes) \/ Finish

Spec == Init(Envs) /\ [][Next]_vars

----------------------------------------------------------------------------
(* The calculators on many bodies *)

MaxNum == 4

Numbers == {JNum(n) : n \in (-1)..MaxNum}
Strings == {JStr(x) : x \in NumericStrings \cup ObjectPrototypeKeys \cup {"abc"}}
JValues ==
  {JUndefined, JNull, JBool(TRUE), JBool(FALSE), JObject} \cup Numbers \cup Strings
FewJValues ==
  {JUndefined, JNull, JObject, JNum(-1), JNum(0), JNum(MaxNum), JStr("abc"),
   JStr("2")}

SubsBodies ==
  {[ok |-> TRUE, f |-> [NoFields EXCEPT !.subs = s, !.tier = t]] :
     s \in JValues, t \in JValues}
AdsBodies ==
  {[ok |-> TRUE, f |-> [NoFields EXCEPT !.adMinutes = m, !.viewers = v, !.cpm = c]] :
     m \in FewJValues, v \in FewJValues, c \in FewJValues}

CalcEnvs ==
  [ALLOWED_ORIGINS : AllowedOriginsValues, CLIENT_API_KEY : ClientKeyValues,
   OPENAI_API_KEY : {Undefined}]

CalcRequests ==
  [method : {"POST"}, path : CalculatorRoutes, origin : {Undefined, Str(C)},
   key : {Undefined, Str(K)},
   body : SubsBodies \cup AdsBodies \cup {MalformedBody}]

NextCalc == Receive(CalcRequests) \/ Finish

SpecCalc == Init(CalcEnvs) /\ [][NextCalc]_vars

----------------------------------------------------------------------------
(* The generation routes on many provider texts *)

MaxUnitLen == 3
MaxRepeat == 16

Alphabet == {"a", "b", SP, LF, CR}

RECURSIVE StringsOfLen(_)
StringsOfLen(n) ==
  IF n = 0 THEN {<<>>}
  ELSE {Append(u, c) : u \in StringsOfLen(n - 1), c \in Alphabet}

Units == UNION {StringsOfLen(n) : n \in 1..MaxUnitLen}

RECURSIVE Repeat(_, _)
Repeat(u, n) == IF n = 0 THEN <<>> ELSE u \o Repeat(u, n - 1)

\* every string of at most MaxUnitLen characters, repeated up to MaxRepeat times
RawTexts == {Repeat(u, n) : u \in Units, n \in 0..MaxRepeat}

ParseEnvs ==
  [ALLOWED_ORIGINS : {Undefined}, CLIENT_API_KEY : {Undefined},
   OPENAI_API_KEY : {Str(<<"s">>)}]

ParseRequests ==
  [method : {"POST"}, path : GenerationRoutes, origin : {Undefined},
   key : {Undefined}, body : {EmptyBody}]

ParseOutcomes ==
  {Outcome("nocontent", 200, <<>>)} \cup {Outcome("text", 200, t) : t \in RawTexts}

NextParse == Receive(ParseRequests) \/ Settle(ParseOutcomes) \/ Finish

SpecParse == Init(ParseEnvs) /\ [][NextParse]_vars

----------------------------------------------------------------------------
(* The request and its configuration, in the words of the specification *)

InFlight == pc # "idle"
Responded == pc = "responded"

SecretConfigured == env.CLIENT_API_KEY.def /\ env.CLIENT_API_KEY.s # <<>>
KeyMissingOrDiffers == ~req.key.def \/ req.key.s # env.CLIENT_API_KEY.s

AllowListConfigured == env.ALLOWED_ORIGINS.def /\ env.ALLOWED_ORIGINS.s # <<>>
\* the entries of "a, b", the one list the inputs configure
ConfiguredOrigins == IF AllowListConfigured THEN {A, B} ELSE {}
\* an origin header is sent and the configured list does not hold it
OriginNotListed ==
  req.origin.def /\ AllowListConfigured /\ req.origin.s \notin ConfiguredOrigins
\* the same for an origin header that is not empty
OriginRejected == OriginNotListed /\ req.origin.s # <<>>

CorsError == FinalHandler(500, "CORS not allowed")
ParseError == FinalHandler(400, "Unexpected token")
Unauthorized == JsonError(401, "Missing or invalid x-api-key header", 0)
Ok == SendText("OK")

NoHandlerRan == log.handler = "none" /\ log.fetches = 0 /\ log.upstream = "none"

\* one of the six endpoints, with its method
IsEndpoint ==
  \/ req.method = "POST" /\ req.path \in GenerationRoutes \cup CalculatorRoutes
  \/ req.method = "GET" /\ req.path = "/health"

\* what the stages before the secret check answer, if one of them ends the
\* request: the body parser, the origin check, the preflight answer
EarlierStage ==
  IF ~req.body.ok THEN ParseError
  ELSE IF OriginRejected THEN CorsError
  ELSE IF req.method = "OPTIONS" THEN Preflight
  ELSE NoRes

----------------------------------------------------------------------------
(* C1 *)

\* C1 as stated: with a secret configured, every request whose x-api-key is
\* missing or differs is answered 401 with the JSON error, and neither a
\* route handler nor the upstream client runs for it.
C1_Original ==
  (InFlight /\ SecretConfigured /\ KeyMissingOrDiffers) =>
    /\ NoHandlerRan
    /\ Responded => res = Unauthorized

\* C1, amended: with a secret configured, a request whose x-api-key is
\* missing or differs never reaches a route handler or the upstream client;
\* it is answered 401 with the JSON error unless an earlier stage ends it:
\* the body parser (400), the origin check (the CORS error) or the preflight
\* answer to an OPTIONS request (204).
C1_Unauthorized ==
  (InFlight /\ SecretConfigured /\ KeyMissingOrDiffers) =>
    /\ NoHandlerRan
    /\ Responded
    /\ res = IF EarlierStage # NoRes THEN EarlierStage ELSE Unauthorized
    /\ log.keyChecked <=> (EarlierStage = NoRes)

\* a generation request with a wrong key, the upstream credential present,
\* is answered 401
C1_Witness ==
  /\ Responded /\ SecretConfigured /\ req.key.def /\ req.key.s # env.CLIENT_API_KEY.s
  /\ req.method = "POST" /\ req.path = "/generate-title"
  /\ Truthy(env.OPENAI_API_KEY)
  /\ res = Unauthorized

----------------------------------------------------------------------------
(* C2 *)

\* C2 as stated: the origin check admits a request exactly when it has no
\* origin header, or no allow-list is configured, or its origin is listed;
\* a request with an origin that is not listed is rejected with the CORS
\* error before the secret check and before any handler.
C2_Original ==
  InFlight =>
    /\ log.originChecked =>
         ((res # CorsError) <=>
            (~req.origin.def \/ ~AllowListConfigured
               \/ req.origin.s \in ConfiguredOrigins))
    /\ OriginNotListed =>
         (Responded /\ res = CorsError /\ ~log.keyChecked /\ NoHandlerRan)

\* C2, amended: the origin check admits a request exactly when its origin
\* header is absent or empty, or no allow-list is configured, or its origin
\* is listed; a request with a non-empty origin that is not listed never
\* reaches the secret check or a handler, and is rejected with the CORS
\* error unless the body parser has already rejected it with status 400.
C2_OriginCheck ==
  InFlight =>
    /\ log.originChecked <=> req.body.ok
    /\ log.originChecked =>
         ((res # CorsError) <=>
            (~req.origin.def \/ req.origin.s = <<>> \/ ~AllowListConfigured
               \/ req.origin.s \in ConfiguredOrigins))
    /\ OriginRejected =>
         /\ Responded /\ ~log.keyChecked /\ NoHandlerRan
         /\ res = IF req.body.ok THEN CorsError ELSE ParseError

\* a POST to a calculator from an origin that is not listed is rejected
C2_Witness ==
  /\ Responded /\ req.method = "POST" /\ req.path = "/calc-subs" /\ req.body.ok
  /\ req.origin = Str(C) /\ AllowListConfigured /\ res = CorsError

----------------------------------------------------------------------------
(* C6 *)

\* C6 as stated: a request that fails both the origin check and the secret
\* check is rejected with the CORS error and never with the 401.
C6_Original ==
  (Responded /\ OriginRejected /\ SecretConfigured /\ KeyMissingOrDiffers) =>
    (res = CorsError /\ res.status # 401)

\* C6, amended: a request that fails both checks is never answered 401 and
\* never reaches the secret check; it is rejected with the CORS error when
\* its body parses, and with the body parser's 400, before either check,
\* when it does not.
C6_OriginBeforeSecret ==
  (InFlight /\ OriginRejected /\ SecretConfigured /\ KeyMissingOrDiffers) =>
    /\ Responded /\ res.status # 401 /\ ~log.keyChecked
    /\ req.body.ok => (res = CorsError /\ log.originChecked)
    /\ ~req.body.ok => (res = ParseError /\ ~log.originChecked)

\* a request failing both checks, its body well formed, gets the CORS error
C6_Witness ==
  /\ Responded /\ OriginRejected /\ SecretConfigured /\ KeyMissingOrDiffers
  /\ req.body.ok /\ req.method = "POST" /\ res = CorsError

----------------------------------------------------------------------------
(* C4 *)

\* C4 as stated: GET /health is answered with the text OK whatever the
\* headers, the body and the configuration are.
C4_Original ==
  (Responded /\ req.method = "GET" /\ req.path = "/health") => res = Ok

\* C4, amended: GET /health passes through the same chain as every route:
\* it is answered with the text OK exactly when its body parses, its origin
\* is admitted and its x-api-key is accepted, and otherwise with the 400,
\* the CORS error or the 401 of the stage that rejects it.
C4_HealthBehindGate ==
  (InFlight /\ req.method = "GET" /\ req.path = "/health") =>
    /\ Responded
    /\ res = IF EarlierStage # NoRes THEN EarlierStage
             ELSE IF SecretConfigured /\ KeyMissingOrDiffers THEN Unauthorized
             ELSE Ok

\* GET /health with the right key from a listed origin is answered OK
C4_Witness ==
  /\ Responded /\ req.method = "GET" /\ req.path = "/health" /\ SecretConfigured
  /\ AllowListConfigured /\ req.origin = Str(B)
  /\ req.key = env.CLIENT_API_KEY /\ res = Ok

----------------------------------------------------------------------------
(* C3 *)

\* the provider answered with a success status and a JSON body whose
\* content is a string or is missing
UpstreamSucceeded ==
  Truthy(env.OPENAI_API_KEY) /\ log.outcome \in {"text", "nocontent"}

----------------------------------------------------------------------------
(* C5 *)

\* C5: on the three generation endpoints every failure of the AI client
\* (the missing credential, a non-success status of the provider) is
\* answered by the handler with status 500 and {error: message}; it never
\* leaves the handler, and the server goes on serving requests.
C5_FailuresCaught ==
  /\ ~crashed
  /\ pc = "idle" => ENABLED Receive(Requests)
  /\ (Responded /\ log.handler \in GenerationRoutes) =>
       /\ ~Truthy(env.OPENAI_API_KEY) =>
            res = JsonError(500, "OPENAI_API_KEY missing in env", 0)
       /\ log.outcome = "status" =>
            res = JsonError(500, "OpenAI error", log.outcomeStatus)
       /\ log.outcome \in {"reject", "badjson", "nonstring"} =>
            (res.status = 500 /\ res.type = "json" /\ res.error # "")

\* after a request answered 500 by a handler's catch, a generation request
\* is answered 500 for the provider's status 429
C5_Witness ==
  /\ after500 /\ Responded /\ log.handler = "/generate-bio"
  /\ log.outcome = "status" /\ log.outcomeStatus = 429
  /\ res.status = 500 /\ res.error = "OpenAI error" /\ res.upstreamStatus = 429

----------------------------------------------------------------------------
(* C10 *)

----------------------------------------------------------------------------
(* C7 *)

LineFeeds(s) == {i \in 1..Len(s) : s[i] = LF}

\* the position before each line of s: 0, and every line feed
LineStarts(s) == {0} \cup LineFeeds(s)

\* the line that starts after position p: up to the next line feed or the end
LineAfter(s, p) ==
  LET ends == {q \in LineFeeds(s) \cup {Len(s) + 1} : q > p}
      e == CHOOSE q \in ends : \A q2 \in ends : q <= q2
  IN SubSeq(s, p + 1, e - 1)

\* l between its first and its last character that is not white space; the
\* carriage return of a "\r\n" goes with the white space at the line's end
Stripped(l) ==
  LET keep == {i \in 1..Len(l) : l[i] \notin {SP, CR, LF}}
  IN IF keep = {} THEN <<>>
     ELSE SubSeq(l, CHOOSE i \in keep : \A j \in keep : i <= j,
                    CHOOSE i \in keep : \A j \in keep : i >= j)

\* the trimmed lines of s that are not empty, in the order of s
TrimmedNonEmptyLines(s) ==
  LET starts == {p \in LineStarts(s) : Stripped(LineAfter(s, p)) # <<>>}
  IN [k \in 1..Cardinality(starts) |->
        Stripped(LineAfter(s,
          CHOOSE p \in starts : Cardinality({q \in starts : q < p}) = k - 1))]

\* the limits the specification gives: 10 titles, 15 names, 5 bios
StatedLimit ==
  CASE req.path = "/generate-title" -> 10
    [] req.path = "/generate-name" -> 15
    [] OTHER -> 5

\* C7: the list in a generation endpoint's response holds no empty or
\* whitespace-only entry, is the first `limit` trimmed non-empty lines of the
\* raw text in their order, and has at most `limit` entries (10, 15, 5).
C7_ParsedList ==
  (Responded /\ log.handler \in GenerationRoutes /\ res.status = 200) =>
    LET all == TrimmedNonEmptyLines(res.raw)
        n == IF Len(all) < StatedLimit THEN Len(all) ELSE StatedLimit
    IN /\ Len(res.list) <= StatedLimit
       /\ res.list = SubSeq(all, 1, n)
       /\ \A i \in 1..Len(res.list) :
            \E j \in 1..Len(res.list[i]) : res.list[i][j] \notin White

\* sixteen lines came back for /generate-name and fifteen were kept, among
\* them two that differ
C7_Witness ==
  /\ Responded /\ log.handler = "/generate-name" /\ res.status = 200
  /\ Len(res.list) = 15 /\ Len(TrimmedNonEmptyLines(res.raw)) > 15
  /\ res.list[1] # res.list[2]

----------------------------------------------------------------------------
(* C8 *)

\* the rate the specification gives a tier, in tenths: 2.5, 5 and 12.5 for
\* tiers 1, 2 and 3, and 2.5 for anything else
StatedRate(tier) ==
  CASE (tier.t = "number" /\ tier.n = 2) \/ (tier.t = "string" /\ tier.s = "2") -> 50
    [] (tier.t = "number" /\ tier.n = 3) \/ (tier.t = "string" /\ tier.s = "3") -> 125
    [] OTHER -> 25

\* C8: for every subs and every tier sent to /calc-subs, earnings is subs
\* times the rate of the tier, the rate of tier 1 standing in for every tier
\* that is not 1, 2 or 3.
C8_EarningsByTier ==
  (Responded /\ log.handler = "/calc-subs") =>
    res.fields.earnings =
      JsonNumber(Mul(Number(Default(req.body.f.subs, JNum(0))),
                     Num(StatedRate(Default(req.body.f.tier, JNum(1))))))

----------------------------------------------------------------------------
(* C9 *)

\* the request passes the origin check and the secret check
GatePassed ==
  /\ req.body.ok
  /\ ~OriginRejected
  /\ ~(SecretConfigured /\ KeyMissingOrDiffers)

\* a value that is no number and reads as none: an object, or a string that
\* is neither empty nor a numeral
Malformed(x) == x.t = "object" \/ (x.t = "string" /\ x.s \notin NumericStrings)

\* the value a numeric input is echoed as
Echo(x) ==
  CASE x.t = "number" -> x
    [] Malformed(x) -> JNull
    [] OTHER -> JsonNumber(Number(x))

====
